---- MODULE Spec2Model ----
(***************************************************************************)
(* Model of the FRC driver-station protocol engine                         *)
(* (src/python/frc_protocol_2020.py, class FRCDriverStation) together with *)
(* the enable path of the HTTP facade (src/python/server/http_handler.py). *)
(*                                                                         *)
(* Three execution contexts touch the engine and none of them takes a      *)
(* lock:                                                                   *)
(*   - the receive thread (_recv_loop): datagrams and receive timeouts;    *)
(*   - the send thread (_send_loop): builds and transmits control frames;  *)
(*   - a request thread of the facade: the command entry points.           *)
(* A handler that only writes, or that reads and writes in one statement   *)
(* sequence nobody else can observe half-way, is one action.  The two      *)
(* handlers that read shared fields in several statements while another    *)
(* thread may write them (enable_robot and _build_robot_packet) are split  *)
(* at those statements.                                                    *)
(*                                                                         *)
(* Time is counted in units of 50 ms.  The engine uses time.time() only in *)
(* the difference time.time() - _last_response_time and in the socket      *)
(* timeout, so the model keeps these two durations instead of the clock.   *)
(* The receive loop is idealised: the socket timeout is raised at the      *)
(* instant its 100 ms have elapsed and a loop body takes no time, so the   *)
(* timeout branch is part of the step in which the clock reaches the       *)
(* deadline.                                                               *)
(***************************************************************************)
EXTENDS Integers, Sequences, FiniteSets, TLC

(***************************************************************************)
(* Bounds of the model                                                     *)
(***************************************************************************)
\* the silence is counted up to this many units; longer silences are alike
SilenceCap == 5
\* number of frames the send loop transmits before the model stops sending
MaxSent == 2
MaxTicks == 3
\* table updates and periodic broadcasts in one run
MaxEvents == 3
\* broadcasts on the event loop at once
MaxPending == 1
\* loops of either kind that earlier calls of start() have left running
MaxEarlier == 1

(***************************************************************************)
(* Program constants                                                       *)
(***************************************************************************)
\* ControlMode
TELEOP == 0
TEST == 1
AUTONOMOUS == 2
ControlMode == {TELEOP, AUTONOMOUS, TEST}

\* ControlBits
CB_ENABLED == 4
CB_FMS_ATTACHED == 8
CB_EMERGENCY_STOP == 128

\* RequestCode.NORMAL, StationCode.RED1
RC_NORMAL == 0
RED1 == 0
BLUE3 == 5
StationCode == RED1..BLUE3

\* FRCDriverStation.WATCHDOG_TIMEOUT = 0.15 s, in units of 50 ms
WATCHDOG_TIMEOUT == 3
\* the send loop's times, in ms
PACKET_INTERVAL == 20
SLEEP_MIN == 1
SLEEP_CAP == 5
\* socket.settimeout(0.1), in units of 50 ms
RECV_TIMEOUT == 2
\* Config.DEFAULT_TEAM_NUMBER
DEFAULT_TEAM_NUMBER == 1234
\* lines the modular server keeps
MAX_LOG_HISTORY == 500
\* lines ds_server keeps
DS_LOG_HISTORY == 500

(***************************************************************************)
(* Inputs                                                                  *)
(***************************************************************************)
\* team numbers a caller sets
Teams == {DEFAULT_TEAM_NUMBER, 254}

\* f"10.{team_number//100}.{team_number%100}.2"
TeamAddress_swapped(t) == <<10, t % 100, t \div 100, 2>>

TeamAddress(t) == <<10, t \div 100, t % 100, 2>>

\* an address that is no team's robot
CustomAddress == <<192, 168, 1, 50>>
Addresses == {TeamAddress(t) : t \in Teams} \cup {CustomAddress}

\* datagrams on the receive port: bytes as the robot sends them
DG_code == <<0, 5, 1, 0, 32, 12, 128>>
DG_nocode == <<0, 5, 1, 0, 0, 12, 128>>
DG_estop == <<0, 5, 1, 128, 32, 12, 128>>
DG_short == <<0, 5, 1, 0, 32, 12>>
\* DG_code under a protocol version the engine does not know
DG_badver == <<0, 5, 2, 0, 32, 12, 128>>
Datagrams == {DG_code, DG_nocode, DG_estop, DG_short, DG_badver}

\* by how many ms a sleep of the send loop overruns: not at all, by the
\* usual little, by more than one packet interval
Lateness == {0, 1, 25}

\* values of _sent_packets at which the send thread is observed: a fresh
\* engine, the low byte about to carry, the 16-bit field about to wrap
SendStarts == {0, 255, 65535}

\* team numbers of the documented range, its ends and the hundreds borders
TeamInputs ==
    {h * 100 + l : h \in {0, 1, 2, 9, 10, 12, 99},
                   l \in {0, 1, 9, 10, 34, 54, 99}} \ {0}
\* team numbers outside the documented range, as int() of the facade
\* yields them
BadTeams == {0 - 5, 0, 10000}
\* an address that is no dotted quad
MalformedAddress == <<10, 12, 999>>

\* response datagrams of a known version: every field at its ends, with
\* and without bytes after the voltage
ResponseHeads ==
    {<<a, b, 1, c, d, e, f>> :
        a \in {0, 1, 255}, b \in {0, 5, 255}, c \in {0, 127, 128, 255},
        d \in {0, 32, 223, 255}, e \in {0, 12, 255}, f \in {0, 128, 255}}
ResponseTails == {<<>>, <<7>>, <<7, 7, 7>>, <<0, 0, 255, 255>>}
DecodeInputs == {h \o t : h \in ResponseHeads, t \in ResponseTails}

\* Text is a sequence of code points: 10 is a newline, 32 a space, 60 is <,
\* 92 a backslash, 97 98 110 are a b n.
\* the separator the history path splits on: a backslash followed by n
ESCAPED_NL == <<92, 110>>
\* what str.strip removes
Whitespace == {9, 10, 11, 12, 13, 32}
\* a log line that holds only the number k
NumberedLine(k) == <<1000 + k>>
\* a ring of n distinct lines
NumberedRing(n) == [i \in 1..n |-> NumberedLine(i)]
\* n lines joined by the separator sep, which has two code points
Joined(n, sep) ==
    [i \in 1..(3 * n - 2) |->
        IF i % 3 = 1 THEN 1000 + (i + 2) \div 3
        ELSE IF i % 3 = 2 THEN sep[1] ELSE sep[2]]
\* values of the key latest: a line, a line with a newline inside, markup
LatestValues == {<<97>>, <<97, 10, 98>>, <<60, 98, 62>>}
\* values of the key history: lines separated by newlines, by backslash n,
\* with blank and padded lines, and one line more than the ring holds
HistoryValues ==
    {<<97, 10, 98>>, <<97, 92, 110, 98>>,
     <<97, 32, 92, 110, 32, 92, 110, 32, 98>>,
     Joined(MAX_LOG_HISTORY + 1, ESCAPED_NL)}
\* keys of the Logs table
LogKeys == {"latest", "history", "count"}
\* the values a key of the Logs table is updated with
LogValues(key) == IF key = "history" THEN HistoryValues ELSE LatestValues
\* rings a server that has run for a while holds
LogRings ==
    {<<>>, NumberedRing(MAX_LOG_HISTORY - 1), NumberedRing(MAX_LOG_HISTORY)}

(***************************************************************************)
(* Bit operations on non-negative integers                                 *)
(***************************************************************************)
RECURSIVE BitAnd(_, _)
BitAnd(a, b) ==
    IF a = 0 \/ b = 0 THEN 0
    ELSE (a % 2) * (b % 2) + 2 * BitAnd(a \div 2, b \div 2)

RECURSIVE BitOr(_, _)
BitOr(a, b) ==
    IF a = 0 THEN b
    ELSE IF b = 0 THEN a
    ELSE (IF a % 2 = 1 \/ b % 2 = 1 THEN 1 ELSE 0)
         + 2 * BitOr(a \div 2, b \div 2)

HasBit(byte, bit) == BitAnd(byte, bit) # 0

(***************************************************************************)
(* State                                                                   *)
(***************************************************************************)
VARIABLES
    team_number,          \* self.team_number
    robot_address,        \* self.robot_address
    status,               \* self.status (RobotStatus)
    _mode,                \* self._mode
    _enabled,             \* self._enabled
    _emergency_stopped,   \* self._emergency_stopped
    _fms_attached,        \* self._fms_attached
    _sent_packets,        \* self._sent_packets
    silence,              \* time.time() - self._last_response_time
    recv_wait,            \* time the pending recvfrom has been blocked
    pc_send,              \* position of the send thread in _build_robot_packet
    control_code,         \* local control_code of _build_robot_packet
    build_latched,        \* the frame under construction was started while
                          \* the e-stop was latched and no clear came since
    wire,                 \* the last frame handed to sendto
    pc_cmd,               \* position of the request thread in the enable path
    current_status,       \* local current_status of _execute_action
    since_valid,          \* what arrived since the last decoded frame
    station,              \* the station the driver selected; the engine
                          \* has no field for it
    rx_data,              \* a datagram waiting on the socket for the decoder
    snap,                 \* the dictionary get_status is filling
    snap_pc,              \* the key get_status reads next, 0 outside a call
    _running,             \* self._running
    send_alive,           \* the send thread has not left _send_loop
    recv_alive,           \* the receive thread has not left _recv_loop
    pc_stop,              \* position of the caller of stop()
    now,                  \* time.time() in ms since _send_loop was entered
    next_send_time,       \* local next_send_time of _send_loop, same scale
    pc_pace,              \* position of _send_loop when its pacing is followed
    ticks,                \* passes of _send_loop that called _send_robot_packet
    _log_lines,           \* WebSocketServer._log_lines
    _status,              \* WebSocketServer._status
    _ws_loop,             \* WebSocketServer._ws_loop is set
    _clients,             \* SystemMonitor._clients
    tasks,                \* _broadcast coroutines on the event loop
    handler_pc,           \* position of each subscriber's websocket_handler
    inbox,                \* what each subscriber has received, in order,
                          \* up to the end of its initial bundle
    link_up,              \* the subscriber's connection accepts messages
    _log_lock,            \* the handler that holds WebSocketServer._log_lock
    events,               \* listener calls and periodic broadcasts so far
    ds_log_lines,         \* ServerState._log_lines
    ds_status,            \* ServerState._status
    ds_ws_loop,           \* ServerState._ws_loop is set
    ds_scheduled,         \* messages ServerState handed to _broadcast
    earlier_send,         \* send threads of earlier calls of start() alive
    earlier_recv,         \* receive threads of earlier calls alive
    earlier_packet,       \* the packet such a send thread has built and not
                          \* yet sent, <<>> if none
    start_result          \* what the last call of start() returned

vars == <<team_number, robot_address, status, _mode, _enabled,
          _emergency_stopped, _fms_attached, _sent_packets, silence,
          recv_wait, pc_send, control_code, build_latched, wire,
          pc_cmd, current_status, since_valid, station, rx_data, snap,
          snap_pc, _running, send_alive, recv_alive, pc_stop, now,
          next_send_time, pc_pace, ticks, _log_lines, _status, _ws_loop,
          _clients, tasks, handler_pc, inbox, link_up, _log_lock, events,
          ds_log_lines, ds_status, ds_ws_loop, ds_scheduled, earlier_send,
          earlier_recv, earlier_packet, start_result>>

intent == <<_mode, _enabled, _emergency_stopped, _fms_attached, team_number,
            robot_address>>
sendVars == <<_sent_packets, pc_send, control_code, wire>>
recvVars == <<status, silence, recv_wait, since_valid>>
cmdVars == <<pc_cmd, current_status>>
\* what the engine's callers and the network hold; no engine handler other
\* than get_status writes it
callerVars == <<station, rx_data, snap, snap_pc>>
\* the engine's threads and its running flag
lifeVars == <<_running, send_alive, recv_alive, pc_stop>>
\* the state of the server around the engine
\* the clock and the locals of _send_loop
paceVars == <<now, next_send_time, pc_pace, ticks>>
\* the fan-out of the modular server
fanVars == <<_log_lines, _status, _ws_loop, _clients, tasks, handler_pc,
             inbox, link_up, _log_lock>>
\* the fan-out of ds_server
dsVars == <<ds_log_lines, ds_status, ds_ws_loop, ds_scheduled>>
serverVars == <<fanVars, dsVars, events>>
\* what calls of start() on a started engine leave behind
startVars == <<earlier_send, earlier_recv, earlier_packet, start_result>>
hostVars == <<paceVars, serverVars, startVars>>
\* everything the fan-outs leave alone
engineVars == <<intent, recvVars, sendVars, build_latched, cmdVars,
                callerVars, lifeVars, paceVars, startVars>>

\* RobotStatus() defaults; the voltage is kept in 1/256 V
RobotStatus ==
    [connected |-> FALSE, enabled |-> FALSE, voltage |-> 0,
     code_present |-> FALSE, emergency_stopped |-> FALSE, packet_count |-> 0]

\* current_status before _execute_action has read it
NoStatus == [taken |-> FALSE, robot_communications |-> FALSE,
             robot_code |-> FALSE, emergency_stopped |-> FALSE]

\* the engine as get_driver_station returns it: start() has set the flag
\* and both threads run; stop() has not been called
LifeInit ==
    /\ _running = TRUE
    /\ send_alive = TRUE
    /\ recv_alive = TRUE
    /\ pc_stop = "idle"
    /\ earlier_send = 0
    /\ earlier_recv = 0
    /\ earlier_packet = <<>>
    /\ start_result = TRUE

\* _send_loop entered: next_send_time = time.time()
PaceInit ==
    /\ now = 0
    /\ next_send_time = 0
    /\ pc_pace = "head"
    /\ ticks = 0

\* subscribers that may connect
Subs == {"c1", "c2"}
\* keys of the Dashboard table and their values; 0 stands for no entry
NTKeys == {"k1", "k2"}
\* keys of SystemMonitor._system_stats
StatKeys == {"cpu_percent", "ram_percent", "ram_used_mb", "ram_total_mb",
             "connected_clients"}
\* keys a status dictionary of the server can hold
MapKeys == NTKeys \cup StatKeys
\* what psutil measures, taken as one number for its four keys; 0 without
\* psutil
Readings == {0, 12}
NoEntry == -1
NTValues == {1, 2}
NoMap == [k \in MapKeys |-> NoEntry]

\* no log line received
LogInit == _log_lines = <<>> /\ ds_log_lines = <<>>

\* both servers constructed, no status received, nobody connected
FanInit ==
    /\ _status = NoMap
    /\ _ws_loop = FALSE
    /\ _clients = {}
    /\ tasks = <<>>
    /\ handler_pc = [c \in Subs |-> "none"]
    /\ inbox = [c \in Subs |-> <<>>]
    /\ link_up = [c \in Subs |-> FALSE]
    /\ _log_lock = "free"
    /\ events = 0
    /\ ds_status = NoMap
    /\ ds_ws_loop = FALSE
    /\ ds_scheduled = <<>>

ServerInit == LogInit /\ FanInit

\* the server before its first event
HostInit == PaceInit /\ ServerInit

\* the keys of the get_status dictionary in the order the literal reads them
StatusKeys ==
    <<"connected", "robot_communications", "enabled", "robot_enabled",
      "mode", "voltage", "robot_voltage", "code_present", "robot_code",
      "emergency_stopped", "can_be_enabled", "team_number", "robot_address",
      "packet_count">>

\* the dictionary of get_status before any key is read
NoSnapshot ==
    [connected |-> FALSE, robot_communications |-> FALSE,
     enabled |-> FALSE, robot_enabled |-> FALSE, mode |-> TELEOP,
     voltage |-> 0, robot_voltage |-> 0, code_present |-> FALSE,
     robot_code |-> FALSE, emergency_stopped |-> FALSE,
     can_be_enabled |-> FALSE, team_number |-> 0,
     robot_address |-> <<>>, packet_count |-> 0]

EngineInit ==
    /\ team_number = DEFAULT_TEAM_NUMBER
    /\ robot_address = TeamAddress(DEFAULT_TEAM_NUMBER)
    /\ status = RobotStatus
    /\ _mode = TELEOP
    /\ _enabled = FALSE
    /\ _emergency_stopped = FALSE
    /\ _sent_packets = 0
    /\ silence = SilenceCap
    /\ recv_wait = 0
    /\ pc_send = "idle"
    /\ control_code = 0
    /\ build_latched = FALSE
    /\ wire = <<>>
    /\ pc_cmd = "idle"
    /\ current_status = NoStatus
    /\ since_valid = "never"
    /\ _fms_attached = FALSE
    /\ station = RED1
    /\ rx_data = <<>>
    /\ snap = NoSnapshot
    /\ snap_pc = 0
    /\ LifeInit

\* the state after construction
Init == EngineInit /\ HostInit

(***************************************************************************)
(* Wire codec                                                              *)
(***************************************************************************)
\* _build_robot_packet, first statements: mode, enabled bit, FMS bit
ControlHead_unmasked ==
    BitOr(BitOr(_mode, IF _enabled THEN CB_ENABLED ELSE 0),
          IF _fms_attached THEN CB_FMS_ATTACHED ELSE 0)

ControlHead ==
    BitOr(BitOr(_mode,
                IF _enabled /\ ~_emergency_stopped THEN CB_ENABLED ELSE 0),
          IF _fms_attached THEN CB_FMS_ATTACHED ELSE 0)

\* _build_robot_packet, the e-stop statement, applied to the code so far
ControlTail_none(cc) == cc

ControlTail(cc) ==
    BitOr(cc, IF _emergency_stopped THEN CB_EMERGENCY_STOP ELSE 0)

\* struct.pack of the six fields
Packet_unmasked(cc) ==
    <<_sent_packets \div 256, _sent_packets % 256, 1, cc, RC_NORMAL, RED1>>

Packet(cc) ==
    <<(_sent_packets % 65536) \div 256, (_sent_packets % 65536) % 256,
      1, cc, RC_NORMAL, RED1>>

\* _process_robot_response: the status after decoding data
Decoded_bit4(data) ==
    IF Len(data) < 7 THEN status
    ELSE [connected |-> TRUE,
          enabled |-> _enabled,
          voltage |-> data[6] * 256 + data[7],
          code_present |-> BitAnd(data[5], 16) # 0,
          emergency_stopped |-> BitAnd(data[4], CB_EMERGENCY_STOP) # 0,
          packet_count |-> data[1] * 256 + data[2]]

Decoded(data) ==
    IF Len(data) < 7 THEN status
    ELSE [connected |-> TRUE,
          enabled |-> _enabled,
          voltage |-> data[6] * 256 + data[7],
          code_present |-> BitAnd(data[5], 32) # 0,
          emergency_stopped |-> BitAnd(data[4], CB_EMERGENCY_STOP) # 0,
          packet_count |-> data[1] * 256 + data[2]]

\* get_status: the dictionary returned to the caller
get_status ==
    [connected |-> status.connected,
     robot_communications |-> status.connected,
     enabled |-> status.enabled,
     robot_enabled |-> status.enabled,
     mode |-> _mode,
     voltage |-> status.voltage,
     robot_voltage |-> status.voltage,
     code_present |-> status.code_present,
     robot_code |-> status.code_present,
     emergency_stopped |-> status.emergency_stopped,
     can_be_enabled |-> (status.connected /\ status.code_present
                         /\ ~status.emergency_stopped),
     team_number |-> team_number,
     robot_address |-> robot_address,
     packet_count |-> status.packet_count]

\* get_status entered by a request thread: the dictionary literal starts
GetStatusBegin ==
    /\ snap_pc \in {0, Len(StatusKeys) + 1}
    /\ snap' = NoSnapshot
    /\ snap_pc' = 1
    /\ UNCHANGED <<intent, recvVars, sendVars, build_latched, cmdVars,
                   station, rx_data, lifeVars, hostVars>>

\* get_status evaluates the value of its next key from the engine's fields
\* as they are now; after the last key the dictionary is returned
GetStatusRead ==
    /\ snap_pc \in 1..Len(StatusKeys)
    /\ snap' = [snap EXCEPT ![StatusKeys[snap_pc]] =
                                get_status[StatusKeys[snap_pc]]]
    /\ snap_pc' = snap_pc + 1
    /\ UNCHANGED <<intent, recvVars, sendVars, build_latched, cmdVars,
                   station, rx_data, lifeVars, hostVars>>

(***************************************************************************)
(* Receive thread.  Each step is one pass of the loop of _recv_loop: the    *)
(* thread returns from recvfrom, handles the event and tests _running      *)
(* before it blocks again.                                                 *)
(***************************************************************************)
\* what the new datagram makes of the history since the last decoded frame
SinceValid(src, data) ==
    IF src = robot_address
    THEN IF Len(data) >= 7 THEN "quiet"
         ELSE IF since_valid = "never" THEN "never" ELSE "short"
    ELSE IF since_valid = "quiet" THEN "foreign" ELSE since_valid

\* _recv_loop, recvfrom returned a datagram
RecvDatagram(src, data) ==
    /\ recv_alive
    /\ IF src = robot_address
       THEN /\ status' = Decoded(data)
            /\ silence' = 0
       ELSE UNCHANGED <<status, silence>>
    /\ recv_wait' = 0
    /\ since_valid' = SinceValid(src, data)
    /\ recv_alive' = _running
    /\ UNCHANGED <<intent, sendVars, build_latched, cmdVars, callerVars,
                   _running, send_alive, pc_stop, hostVars>>

\* the silence after one more unit of time
Later(d) == IF d < SilenceCap THEN d + 1 ELSE SilenceCap

\* the watchdog test of _recv_loop, for a silence of d
WatchdogExpired_late(d) == d > WATCHDOG_TIMEOUT + 1

WatchdogExpired(d) == d > WATCHDOG_TIMEOUT

\* _handle_communication_lost
HandleCommunicationLost_clearsLocalEstop ==
    /\ status' = [status EXCEPT !.connected = FALSE, !.enabled = FALSE,
                                !.voltage = 0, !.code_present = FALSE,
                                !.emergency_stopped = FALSE]
    /\ _enabled' = FALSE
    /\ _emergency_stopped' = FALSE
    /\ UNCHANGED <<_mode, team_number, robot_address, _fms_attached>>

HandleCommunicationLost ==
    /\ status' = [status EXCEPT !.connected = FALSE, !.enabled = FALSE,
                                !.voltage = 0, !.code_present = FALSE,
                                !.emergency_stopped = FALSE]
    /\ _enabled' = FALSE
    /\ UNCHANGED <<_mode, _emergency_stopped, team_number, robot_address,
                   _fms_attached>>

\* the clock advances and the pending recvfrom has not timed out yet
Tick ==
    /\ recv_wait + 1 < RECV_TIMEOUT
    /\ recv_wait' = recv_wait + 1
    /\ silence' = Later(silence)
    /\ UNCHANGED <<intent, status, since_valid, sendVars, build_latched,
                   cmdVars, callerVars, lifeVars, hostVars>>

\* the clock reaches the deadline: socket.timeout, the watchdog test fails
RecvTimeout ==
    /\ recv_alive
    /\ recv_wait + 1 = RECV_TIMEOUT
    /\ ~(WatchdogExpired(Later(silence)) /\ status.connected)
    /\ recv_wait' = 0
    /\ silence' = Later(silence)
    /\ recv_alive' = _running
    /\ UNCHANGED <<intent, status, since_valid, sendVars, build_latched,
                   cmdVars, callerVars, _running, send_alive, pc_stop,
                   hostVars>>

\* the clock reaches the deadline: socket.timeout, communication is lost
WatchdogFires ==
    /\ recv_alive
    /\ recv_wait + 1 = RECV_TIMEOUT
    /\ WatchdogExpired(Later(silence))
    /\ status.connected
    /\ recv_wait' = 0
    /\ silence' = Later(silence)
    /\ HandleCommunicationLost
    /\ recv_alive' = _running
    /\ UNCHANGED <<since_valid, sendVars, build_latched, cmdVars,
                   callerVars, _running, send_alive, pc_stop, hostVars>>

(***************************************************************************)
(* Send thread.  The 20 ms pacing of _send_loop is not modelled: a tick    *)
(* may come at any time.                                                   *)
(***************************************************************************)
\* _send_robot_packet -> _build_robot_packet up to the FMS statement
BuildBegin ==
    /\ send_alive /\ _running
    /\ pc_send = "idle"
    /\ \E s \in SendStarts :
           s <= _sent_packets /\ _sent_packets < s + MaxSent
    /\ control_code' = ControlHead
    /\ build_latched' = _emergency_stopped
    /\ pc_send' = "estop_bit"
    /\ UNCHANGED <<intent, recvVars, _sent_packets, wire, cmdVars,
                   callerVars, lifeVars, hostVars>>

\* the rest of _build_robot_packet, then sendto and the counter
BuildFinish(ok) ==
    /\ pc_send = "estop_bit"
    /\ IF ok
       THEN /\ wire' = Packet(ControlTail(control_code))
            /\ _sent_packets' = _sent_packets + 1
       ELSE UNCHANGED <<wire, _sent_packets>>
    /\ control_code' = 0
    /\ build_latched' = FALSE
    /\ pc_send' = "idle"
    /\ UNCHANGED <<intent, recvVars, cmdVars, callerVars, lifeVars, hostVars>>

(***************************************************************************)
(* The pacing of _send_loop, in ms.  A pass that is due calls               *)
(* _send_robot_packet, taken as one step, and rebases next_send_time.       *)
(***************************************************************************)
Min(a, b) == IF a < b THEN a ELSE b
Max(a, b) == IF a > b THEN a ELSE b

\* current_time >= next_send_time: send, then
\* next_send_time = current_time + PACKET_INTERVAL
PaceSend_fromTarget(ok) ==
    /\ send_alive /\ _running
    /\ pc_pace = "head"
    /\ ticks < MaxTicks
    /\ now >= next_send_time
    /\ IF ok
       THEN /\ wire' = Packet(ControlTail(ControlHead))
            /\ _sent_packets' = _sent_packets + 1
       ELSE UNCHANGED <<wire, _sent_packets>>
    /\ next_send_time' = next_send_time + PACKET_INTERVAL
    /\ ticks' = ticks + 1
    /\ pc_pace' = "sleep"
    /\ UNCHANGED <<intent, recvVars, pc_send, control_code, build_latched,
                   cmdVars, callerVars, lifeVars, now,
                   serverVars, startVars>>

PaceSend_raises(ok) ==
    /\ send_alive /\ _running
    /\ pc_pace = "head"
    /\ ticks < MaxTicks
    /\ now >= next_send_time
    /\ IF ok
       THEN /\ wire' = Packet(ControlTail(ControlHead))
            /\ _sent_packets' = _sent_packets + 1
       ELSE UNCHANGED <<wire, _sent_packets>>
    /\ send_alive' = ok
    /\ next_send_time' = now + PACKET_INTERVAL
    /\ ticks' = ticks + 1
    /\ pc_pace' = "sleep"
    /\ UNCHANGED <<intent, recvVars, pc_send, control_code, build_latched,
                   cmdVars, callerVars, _running, recv_alive, pc_stop, now,
                   serverVars, startVars>>

PaceSend(ok) ==
    /\ send_alive /\ _running
    /\ pc_pace = "head"
    /\ ticks < MaxTicks
    /\ now >= next_send_time
    /\ IF ok
       THEN /\ wire' = Packet(ControlTail(ControlHead))
            /\ _sent_packets' = _sent_packets + 1
       ELSE UNCHANGED <<wire, _sent_packets>>
    /\ next_send_time' = now + PACKET_INTERVAL
    /\ ticks' = ticks + 1
    /\ pc_pace' = "sleep"
    /\ UNCHANGED <<intent, recvVars, pc_send, control_code, build_latched,
                   cmdVars, callerVars, lifeVars, now,
                   serverVars, startVars>>

\* current_time < next_send_time: nothing to send in this pass
PaceWait ==
    /\ send_alive /\ _running
    /\ pc_pace = "head"
    /\ now < next_send_time
    /\ pc_pace' = "sleep"
    /\ UNCHANGED <<intent, recvVars, sendVars, build_latched, cmdVars,
                   callerVars, lifeVars, now, next_send_time, ticks,
                   serverVars, startVars>>

\* time.sleep(min(max(0.001, next_send_time - time.time()), 0.005)),
\* which returns late ms after its time
PaceSleep(late) ==
    /\ pc_pace = "sleep"
    /\ ticks < MaxTicks
    /\ now' = now + Min(Max(SLEEP_MIN, next_send_time - now), SLEEP_CAP)
                   + late
    /\ pc_pace' = "head"
    /\ UNCHANGED <<intent, recvVars, sendVars, build_latched, cmdVars,
                   callerVars, lifeVars, next_send_time, ticks,
                   serverVars, startVars>>

\* the send thread finds _running cleared after its sleep and returns
SendLoopExit ==
    /\ send_alive /\ ~_running
    /\ pc_send = "idle"
    /\ send_alive' = FALSE
    /\ UNCHANGED <<intent, recvVars, sendVars, build_latched, cmdVars,
                   callerVars, _running, recv_alive, pc_stop, hostVars>>

(***************************************************************************)
(* stop().  Both loops leave within one receive timeout of 100 ms and one  *)
(* sleep of 5 ms, far inside the 1 s deadline of each join, so a join is   *)
(* modelled as waiting for its thread.                                     *)
(***************************************************************************)
\* self._running = False
StopCall ==
    /\ pc_stop = "idle"
    /\ _running' = FALSE
    /\ pc_stop' = "join_send"
    /\ UNCHANGED <<intent, recvVars, sendVars, build_latched, cmdVars,
                   callerVars, send_alive, recv_alive, hostVars>>

\* self._send_thread.join(timeout=1.0)
JoinSend ==
    /\ pc_stop = "join_send"
    /\ ~send_alive
    /\ pc_stop' = "join_recv"
    /\ UNCHANGED <<intent, recvVars, sendVars, build_latched, cmdVars,
                   callerVars, _running, send_alive, recv_alive, hostVars>>

\* self._recv_thread.join(timeout=1.0), the socket is closed, stop returns
JoinRecv_noWait ==
    /\ pc_stop = "join_recv"
    /\ pc_stop' = "returned"
    /\ UNCHANGED <<intent, recvVars, sendVars, build_latched, cmdVars,
                   callerVars, _running, send_alive, recv_alive, hostVars>>

JoinRecv ==
    /\ pc_stop = "join_recv"
    /\ ~recv_alive
    /\ pc_stop' = "returned"
    /\ UNCHANGED <<intent, recvVars, sendVars, build_latched, cmdVars,
                   callerVars, _running, send_alive, recv_alive, hostVars>>

(***************************************************************************)
(* start().  It tests neither _running nor the threads it holds.  The      *)
(* socket is not modelled: with SO_REUSEADDR set the bind of a further     *)
(* socket to the port succeeds or fails with the platform, and both        *)
(* outcomes are taken.  A call comes between two ticks of the send thread, *)
(* where a loop holds nothing of its own, so the threads start() launches  *)
(* take the place of the ones followed so far (self._send_thread,          *)
(* self._recv_thread), which are counted among the earlier ones.           *)
(***************************************************************************)
start(bound) ==
    /\ pc_stop \in {"idle", "returned"}
    /\ pc_send = "idle"
    /\ ~bound => pc_stop = "idle"
    /\ start_result' = bound
    /\ IF bound
       THEN /\ earlier_send + (IF send_alive THEN 1 ELSE 0) <= MaxEarlier
            /\ earlier_recv + (IF recv_alive THEN 1 ELSE 0) <= MaxEarlier
            /\ _running' = TRUE
            /\ earlier_send' = earlier_send + (IF send_alive THEN 1 ELSE 0)
            /\ earlier_recv' = earlier_recv + (IF recv_alive THEN 1 ELSE 0)
            /\ send_alive' = TRUE
            /\ recv_alive' = TRUE
            /\ recv_wait' = 0
            /\ pc_stop' = "idle"
       ELSE UNCHANGED <<lifeVars, earlier_send, earlier_recv, recv_wait>>
    /\ UNCHANGED <<intent, status, silence, since_valid, sendVars,
                   build_latched, cmdVars, callerVars, paceVars, serverVars,
                   earlier_packet>>

\* _send_robot_packet in a send thread of an earlier start(), up to sendto:
\* the packet is built from the intent and the counter as they are
EarlierBuild ==
    /\ earlier_send > 0 /\ _running
    /\ earlier_packet = <<>>
    /\ \E s \in SendStarts :
           s <= _sent_packets /\ _sent_packets < s + MaxSent
    /\ earlier_packet' = Packet(ControlTail(ControlHead))
    /\ UNCHANGED <<intent, recvVars, sendVars, build_latched, cmdVars,
                   callerVars, lifeVars, paceVars, serverVars, earlier_send,
                   earlier_recv, start_result>>

\* sendto and the counter in that thread
EarlierSend(ok) ==
    /\ earlier_packet # <<>>
    /\ IF ok
       THEN /\ wire' = earlier_packet
            /\ _sent_packets' = _sent_packets + 1
       ELSE UNCHANGED <<wire, _sent_packets>>
    /\ earlier_packet' = <<>>
    /\ UNCHANGED <<intent, recvVars, pc_send, control_code, build_latched,
                   cmdVars, callerVars, lifeVars, paceVars, serverVars,
                   earlier_send, earlier_recv, start_result>>

\* while self._running, read as False by a send thread of an earlier start()
EarlierSendExit ==
    /\ earlier_send > 0 /\ ~_running
    /\ earlier_packet = <<>>
    /\ earlier_send' = earlier_send - 1
    /\ UNCHANGED <<intent, recvVars, sendVars, build_latched, cmdVars,
                   callerVars, lifeVars, paceVars, serverVars, earlier_recv,
                   earlier_packet, start_result>>

\* the same in a receive thread of an earlier start()
EarlierRecvExit ==
    /\ earlier_recv > 0 /\ ~_running
    /\ earlier_recv' = earlier_recv - 1
    /\ UNCHANGED <<intent, recvVars, sendVars, build_latched, cmdVars,
                   callerVars, lifeVars, paceVars, serverVars, earlier_send,
                   earlier_packet, start_result>>

(***************************************************************************)
(* Command entry points, called one at a time by the request thread        *)
(***************************************************************************)
set_team_number(t) ==
    /\ pc_cmd = "idle"
    /\ team_number' = t
    /\ robot_address' = TeamAddress(t)
    /\ UNCHANGED <<_mode, _enabled, _emergency_stopped, recvVars, sendVars,
                   build_latched, cmdVars, _fms_attached, callerVars,
                   lifeVars, hostVars>>

set_robot_address(a) ==
    /\ pc_cmd = "idle"
    /\ robot_address' = a
    /\ UNCHANGED <<team_number, _mode, _enabled, _emergency_stopped,
                   recvVars, sendVars, build_latched, cmdVars,
                   _fms_attached, callerVars, lifeVars, hostVars>>

disable_robot ==
    /\ pc_cmd = "idle"
    /\ _enabled' = FALSE
    /\ UNCHANGED <<team_number, robot_address, _mode, _emergency_stopped,
                   recvVars, sendVars, build_latched, cmdVars,
                   _fms_attached, callerVars, lifeVars, hostVars>>

\* set_teleop_mode, set_autonomous_mode, set_test_mode
set_mode(m) ==
    /\ pc_cmd = "idle"
    /\ _mode' = m
    /\ UNCHANGED <<team_number, robot_address, _enabled, _emergency_stopped,
                   recvVars, sendVars, build_latched, cmdVars,
                   _fms_attached, callerVars, lifeVars, hostVars>>

emergency_stop_resetsAddress ==
    /\ pc_cmd = "idle"
    /\ _emergency_stopped' = TRUE
    /\ _enabled' = FALSE
    /\ robot_address' = TeamAddress(team_number)
    /\ UNCHANGED <<team_number, _mode, recvVars, sendVars, build_latched,
                   cmdVars, _fms_attached, callerVars, lifeVars, hostVars>>

emergency_stop ==
    /\ pc_cmd = "idle"
    /\ _emergency_stopped' = TRUE
    /\ _enabled' = FALSE
    /\ UNCHANGED <<team_number, robot_address, _mode, recvVars, sendVars,
                   build_latched, cmdVars, _fms_attached, callerVars,
                   lifeVars, hostVars>>

clear_emergency_stop ==
    /\ pc_cmd = "idle"
    /\ _emergency_stopped' = FALSE
    /\ build_latched' = FALSE
    /\ UNCHANGED <<team_number, robot_address, _mode, _enabled, recvVars,
                   sendVars, cmdVars, _fms_attached, callerVars, lifeVars,
                   hostVars>>

(***************************************************************************)
(* The enable path: _execute_action('enable') calling enable_robot         *)
(***************************************************************************)
\* the error message _execute_action derives from its earlier status read
ErrorMsg(cs) ==
    IF ~cs.robot_communications THEN "No communication with robot"
    ELSE IF ~cs.robot_code THEN "Robot code not detected"
    ELSE IF cs.emergency_stopped THEN "Robot is emergency stopped"
    ELSE "Cannot enable robot - check robot code and communications"

\* enable_robot returned False
EnableRejected ==
    /\ current_status' = NoStatus
    /\ pc_cmd' = "idle"
    /\ UNCHANGED <<intent, recvVars, sendVars, build_latched, callerVars,
                   lifeVars, hostVars>>

\* the next check of enable_robot
EnableProceed(next) ==
    /\ pc_cmd' = next
    /\ UNCHANGED <<intent, recvVars, sendVars, build_latched,
                   current_status, callerVars, lifeVars, hostVars>>

\* enable_robot is entered by a caller other than the facade
enable_robot ==
    /\ pc_cmd = "idle"
    /\ pc_cmd' = "check_connected"
    /\ UNCHANGED <<intent, recvVars, sendVars, build_latched,
                   current_status, callerVars, lifeVars, hostVars>>

\* _execute_action('enable'): current_status = self.ds.get_status(), then
\* enable_robot is entered
FacadeEnable ==
    /\ pc_cmd = "idle"
    /\ current_status' = [taken |-> TRUE,
                          robot_communications |-> get_status.robot_communications,
                          robot_code |-> get_status.robot_code,
                          emergency_stopped |-> get_status.emergency_stopped]
    /\ pc_cmd' = "check_connected"
    /\ UNCHANGED <<intent, recvVars, sendVars, build_latched, callerVars,
                   lifeVars, hostVars>>

\* the actions _execute_action dispatches on
FacadeActions ==
    {"status", "enable", "disable", "teleop", "auto", "test", "estop",
     "clear_estop", "set_team", "set_address"}

\* the mode a mode action of the facade selects
ActionMode(action) ==
    IF action = "teleop" THEN TELEOP
    ELSE IF action = "auto" THEN AUTONOMOUS
    ELSE TEST

\* one request of the facade: the server builds a FRCDriverStationHandler,
\* whose __init__ calls set_team_number(Config.DEFAULT_TEAM_NUMBER) on the
\* shared engine, and then _execute_action runs the action; t and a are the
\* parameters team and address of the request
FacadeRequest(action, t, a) ==
    /\ pc_cmd = "idle"
    /\ action \in FacadeActions
    /\ team_number' = IF action = "set_team" THEN t ELSE DEFAULT_TEAM_NUMBER
    /\ robot_address' =
           IF action = "set_team" THEN TeamAddress(t)
           ELSE IF action = "set_address" THEN a
           ELSE TeamAddress(DEFAULT_TEAM_NUMBER)
    /\ _mode' = IF action \in {"teleop", "auto", "test"}
                THEN ActionMode(action) ELSE _mode
    /\ _enabled' = IF action \in {"disable", "estop"} THEN FALSE
                   ELSE _enabled
    /\ _emergency_stopped' =
           IF action = "estop" THEN TRUE
           ELSE IF action = "clear_estop" THEN FALSE
           ELSE _emergency_stopped
    /\ build_latched' = IF action = "clear_estop" THEN FALSE
                        ELSE build_latched
    /\ IF action = "enable"
       THEN /\ current_status' =
                   [taken |-> TRUE,
                    robot_communications |-> get_status.robot_communications,
                    robot_code |-> get_status.robot_code,
                    emergency_stopped |-> get_status.emergency_stopped]
            /\ pc_cmd' = "check_connected"
       ELSE UNCHANGED cmdVars
    /\ UNCHANGED <<_fms_attached, recvVars, sendVars, callerVars, lifeVars,
                   hostVars>>

\* if not self.status.connected
EnableCheckConnected ==
    /\ pc_cmd = "check_connected"
    /\ IF ~status.connected THEN EnableRejected
       ELSE EnableProceed("check_code")

\* if not self.status.code_present
EnableCheckCode ==
    /\ pc_cmd = "check_code"
    /\ IF ~status.code_present THEN EnableRejected
       ELSE EnableProceed("check_estop")

\* if self.status.emergency_stopped
EnableCheckEstop ==
    /\ pc_cmd = "check_estop"
    /\ IF status.emergency_stopped THEN EnableRejected
       ELSE EnableProceed("set_enabled")

\* self._enabled = True; return True
EnableSet ==
    /\ pc_cmd = "set_enabled"
    /\ _enabled' = TRUE
    /\ current_status' = NoStatus
    /\ pc_cmd' = "idle"
    /\ UNCHANGED <<team_number, robot_address, _mode, _emergency_stopped,
                   recvVars, sendVars, build_latched, _fms_attached,
                   callerVars, lifeVars, hostVars>>

(***************************************************************************)
(* Status fan-out: the log ring                                            *)
(***************************************************************************)
\* seq[-n:]
Trailing_all(seq, n) == seq
Trailing(seq, n) ==
    IF Len(seq) <= n THEN seq ELSE SubSeq(seq, Len(seq) - n + 1, Len(seq))

\* str.split(sep): the pieces between the occurrences of sep, for a sep
\* that cannot overlap itself; computed by halving at an occurrence near
\* the middle
RECURSIVE Split(_, _)
Split(str, sep) ==
    LET hits == {i \in 1..(Len(str) - Len(sep) + 1) :
                    SubSeq(str, i, i + Len(sep) - 1) = sep}
        right == {h \in hits : 2 * h >= Len(str)}
        at == IF right # {}
              THEN CHOOSE h \in right : \A g \in right : h <= g
              ELSE CHOOSE h \in hits : \A g \in hits : h >= g
    IN  IF hits = {} THEN <<str>>
        ELSE Split(SubSeq(str, 1, at - 1), sep)
                 \o Split(SubSeq(str, at + Len(sep), Len(str)), sep)

\* str.strip()
Strip(str) ==
    LET keep == {i \in 1..Len(str) : str[i] \notin Whitespace}
    IN  IF keep = {} THEN <<>>
        ELSE SubSeq(str, CHOOSE a \in keep : \A b \in keep : a <= b,
                         CHOOSE a \in keep : \A b \in keep : a >= b)

\* [line.strip() for line in str(value).split('\\n') if line.strip()]
HistoryLines(value) ==
    LET pieces == Split(value, ESCAPED_NL)
        stripped == [i \in 1..Len(pieces) |-> Strip(pieces[i])]
        NonBlank(line) == line # <<>>
    IN  SelectSeq(stripped, NonBlank)

\* 'html' if '<' in str(value) else 'ansi'
Format(value) ==
    IF \E i \in 1..Len(value) : value[i] = 60 THEN "html" ELSE "ansi"

\* a message of the fan-out: its type, the status fields and the log lines
\* it carries
Message(type, map, lines, fmt) ==
    [type |-> type, map |-> map, lines |-> lines, format |-> fmt]

\* a _broadcast coroutine handed to the event loop, not started yet
Broadcast(msg) ==
    [msg |-> msg, started |-> FALSE, todo |-> <<>>, to_remove |-> {},
     sent |-> {}]

\* asyncio.run_coroutine_threadsafe(self._broadcast(msg), self._ws_loop)
Schedule(msg) == IF _ws_loop THEN Append(tasks, Broadcast(msg)) ELSE tasks

\* WebSocketServer's listener of the Logs table
log_listener(key, value) ==
    /\ events < MaxEvents
    /\ key \in {"latest", "history"} => _log_lock = "free"
    /\ events' = events + 1
    /\ IF key = "latest"
       THEN /\ _log_lines' =
                   Trailing(Append(_log_lines, value), MAX_LOG_HISTORY)
            /\ tasks' = Schedule(Message("log", NoMap, <<value>>,
                                         Format(value)))
       ELSE IF key = "history"
       THEN /\ _log_lines' = Trailing(HistoryLines(value), MAX_LOG_HISTORY)
            /\ tasks' = Schedule(Message("log_init", NoMap,
                                         HistoryLines(value), "none"))
       ELSE UNCHANGED <<_log_lines, tasks>>
    /\ UNCHANGED <<_status, _ws_loop, _clients, handler_pc, inbox, link_up,
                   _log_lock, dsVars, engineVars>>

\* ServerState's listener of the Logs table
ds_log_listener(key, value) ==
    /\ events < MaxEvents
    /\ events' = events + 1
    /\ ds_log_lines' = Trailing(Append(ds_log_lines, value), DS_LOG_HISTORY)
    /\ ds_scheduled' =
           IF ds_ws_loop
           THEN Append(ds_scheduled,
                       Message("log", NoMap, <<value>>, Format(value)))
           ELSE ds_scheduled
    /\ UNCHANGED <<ds_status, ds_ws_loop, fanVars, engineVars>>

(***************************************************************************)
(* Status fan-out: status map, subscribers and broadcasts                  *)
(***************************************************************************)
\* start_websocket_server: _ws_main stores the running loop
start_websocket_server ==
    /\ ~_ws_loop
    /\ _ws_loop' = TRUE
    /\ UNCHANGED <<_log_lock, _log_lines, _status, _clients, tasks, handler_pc, inbox,
                   link_up, events, dsVars, engineVars>>

\* ServerState.start_websocket_server
ds_start_websocket_server ==
    /\ ~ds_ws_loop
    /\ ds_ws_loop' = TRUE
    /\ UNCHANGED <<ds_log_lines, ds_status, ds_scheduled, events, fanVars,
                   engineVars>>

\* bool(self._status): the map has an entry
HasEntries(map) == \E k \in MapKeys : map[k] # NoEntry

\* WebSocketServer's listener of the Dashboard table
status_listener(key, value) ==
    /\ events < MaxEvents
    /\ events' = events + 1
    /\ _status' = [_status EXCEPT ![key] = value]
    /\ tasks' = Schedule(Message("dashboard", _status', <<>>, "none"))
    /\ UNCHANGED <<_log_lock, _log_lines, _ws_loop, _clients, handler_pc, inbox,
                   link_up, dsVars, engineVars>>

\* ServerState's listener of the Dashboard table
ds_status_listener(key, value) ==
    /\ events < MaxEvents
    /\ events' = events + 1
    /\ ds_status' = [ds_status EXCEPT ![key] = value]
    /\ ds_scheduled' =
           IF ds_ws_loop
           THEN Append(ds_scheduled,
                       Message("status", [NoMap EXCEPT ![key] = value],
                               <<>>, "none"))
           ELSE ds_scheduled
    /\ UNCHANGED <<ds_log_lines, ds_ws_loop, fanVars, engineVars>>

\* SystemMonitor.get_system_stats for a reading of psutil
SystemStats(reading) ==
    [k \in StatKeys |->
        IF k = "connected_clients" THEN Cardinality(_clients) ELSE reading]

\* WebSocketServer.get_status, served at /status.json: base_status is the
\* dictionary _status itself unless that is None, and update writes the
\* system statistics into it
server_get_status(reading) ==
    /\ _status' = IF HasEntries(_status)
                  THEN [k \in MapKeys |->
                           IF k \in StatKeys THEN SystemStats(reading)[k]
                           ELSE _status[k]]
                  ELSE _status
    /\ UNCHANGED <<_log_lock, _log_lines, _ws_loop, _clients, tasks,
                   handler_pc, inbox, link_up, events, dsVars, engineVars>>

\* a pass of dashboard_broadcast_loop that finds a map and a loop
dashboard_broadcast_loop ==
    /\ events < MaxEvents
    /\ events' = events + 1
    /\ HasEntries(_status) /\ _ws_loop
    /\ tasks' = Schedule(Message("dashboard", _status, <<>>, "none"))
    /\ UNCHANGED <<_log_lock, _log_lines, _status, _ws_loop, _clients, handler_pc,
                   inbox, link_up, dsVars, engineVars>>

\* a pass of SystemMonitor.monitor_loop that finds a loop and a subscriber
monitor_loop ==
    /\ events < MaxEvents
    /\ events' = events + 1
    /\ _ws_loop /\ _clients # {}
    /\ tasks' = Schedule(Message("system_stats", NoMap, <<>>, "none"))
    /\ UNCHANGED <<_log_lock, _log_lines, _status, _ws_loop, _clients, handler_pc,
                   inbox, link_up, dsVars, engineVars>>

\* what a subscriber sees of a message: its type and who sent it
Received(type, sender) == [type |-> type, from |-> sender]

\* the thread of the event loop is blocked in the acquire of _log_lock, a
\* threading.Lock, by a handler: no coroutine runs
LoopBlocked == \E c \in Subs : handler_pc[c] \in {"wait_lock", "wait_switch"}

\* the orders in which list(set) may enumerate a set of subscribers
Orderings(set) ==
    {seq \in UNION {[1..n -> set] : n \in {Cardinality(set)}} :
        \A i, j \in 1..Len(seq) : i # j => seq[i] # seq[j]}

\* tasks without its i-th element
Without(seq, i) == SubSeq(seq, 1, i - 1) \o SubSeq(seq, i + 1, Len(seq))

\* _broadcast from its start or from an await up to its next await: the
\* first run takes the snapshot list(_clients); each run sends to the next
\* subscriber of the snapshot and notes a failure; past the last one the
\* failed subscribers are removed.  The event loop starts coroutines in the
\* order they were handed to it.
BroadcastRun_keepsFailed(i, order) ==
    LET t == tasks[i]
        todo == IF t.started THEN t.todo ELSE order
    IN  /\ ~LoopBlocked
        /\ order \in Orderings(_clients)
        /\ t.started \/ \A j \in 1..(i - 1) : tasks[j].started
        /\ IF todo = <<>>
           THEN /\ tasks' = Without(tasks, i)
                /\ UNCHANGED <<_clients, inbox>>
           ELSE LET c == Head(todo)
                IN  /\ tasks' = [tasks EXCEPT ![i] =
                            [t EXCEPT !.started = TRUE, !.todo = Tail(todo),
                                !.sent = IF link_up[c] THEN @ \cup {c}
                                         ELSE @,
                                !.to_remove = IF link_up[c] THEN @
                                              ELSE @ \cup {c}]]
                    /\ inbox' = IF link_up[c] /\ handler_pc[c] # "listen"
                                THEN [inbox EXCEPT ![c] =
                                        Append(@, Received(t.msg.type,
                                                           "broadcast"))]
                                ELSE inbox
                    /\ UNCHANGED _clients
        /\ UNCHANGED <<_log_lock, _log_lines, _status, _ws_loop, handler_pc, link_up,
                       events, dsVars, engineVars>>
BroadcastRun(i, order) ==
    LET t == tasks[i]
        todo == IF t.started THEN t.todo ELSE order
    IN  /\ ~LoopBlocked
        /\ order \in Orderings(_clients)
        /\ t.started \/ \A j \in 1..(i - 1) : tasks[j].started
        /\ IF todo = <<>>
           THEN /\ tasks' = Without(tasks, i)
                /\ _clients' = _clients \ t.to_remove
                /\ UNCHANGED inbox
           ELSE LET c == Head(todo)
                IN  /\ tasks' = [tasks EXCEPT ![i] =
                            [t EXCEPT !.started = TRUE, !.todo = Tail(todo),
                                !.sent = IF link_up[c] THEN @ \cup {c}
                                         ELSE @,
                                !.to_remove = IF link_up[c] THEN @
                                              ELSE @ \cup {c}]]
                    /\ inbox' = IF link_up[c] /\ handler_pc[c] # "listen"
                                THEN [inbox EXCEPT ![c] =
                                        Append(@, Received(t.msg.type,
                                                           "broadcast"))]
                                ELSE inbox
                    /\ UNCHANGED _clients
        /\ UNCHANGED <<_log_lock, _log_lines, _status, _ws_loop, handler_pc, link_up,
                       events, dsVars, engineVars>>

\* the send of its initial bundle that websocket_handler reaches next from
\* position pc: status_init if the map has entries, log_init if the ring
\* has lines, system_stats in any case
NextInit(pc) ==
    IF pc = "none" /\ HasEntries(_status) THEN "status_init"
    ELSE IF pc \in {"none", "log_init"} /\ _log_lines # <<>> THEN "log_init"
    ELSE "system_stats"

\* the position of websocket_handler after the send of an initial message
AfterInit(type) ==
    IF type = "status_init" THEN "log_init"
    ELSE IF type = "log_init" THEN "system_stats"
    ELSE "listen"

\* websocket_handler from its start or from an await up to its next await:
\* a new connection is added to the subscribers first; log_init is sent
\* inside 'with self._log_lock', so the handler is suspended holding the
\* lock and blocks the thread when a suspended handler holds it; a send that
\* fails ends the handler, which removes the subscriber
websocket_handler(c) ==
    LET pc == handler_pc[c]
        type == NextInit(pc)
        locks == pc # "system_stats" /\ type # "status_init"
        released == IF _log_lock = c THEN "free" ELSE _log_lock
    IN  /\ _ws_loop
        /\ ~LoopBlocked
        /\ pc \in {"none", "log_init", "system_stats"}
        /\ link_up' = IF pc = "none"
                      THEN [link_up EXCEPT ![c] = TRUE] ELSE link_up
        /\ IF locks /\ _log_lock # "free"
           THEN /\ handler_pc' = [handler_pc EXCEPT ![c] = "wait_lock"]
                /\ _clients' = _clients \cup {c}
                /\ UNCHANGED <<inbox, _log_lock>>
           ELSE IF link_up'[c]
           THEN /\ inbox' = [inbox EXCEPT ![c] =
                       Append(@, Received(type, "handler"))]
                /\ handler_pc' = [handler_pc EXCEPT ![c] = AfterInit(type)]
                /\ _clients' = _clients \cup {c}
                /\ _log_lock' = IF type = "log_init" THEN c ELSE released
           ELSE /\ handler_pc' = [handler_pc EXCEPT ![c] = "closed"]
                /\ _clients' = _clients \ {c}
                /\ _log_lock' = released
                /\ UNCHANGED inbox
        /\ UNCHANGED <<_log_lines, _status, _ws_loop, tasks, events, dsVars,
                       engineVars>>

\* the message loop of websocket_handler receives switch_log for the
\* NetworkTables log: log_init is sent again inside 'with self._log_lock'
SwitchLog(c) ==
    /\ _ws_loop
    /\ ~LoopBlocked
    /\ handler_pc[c] = "listen"
    /\ link_up[c]
    /\ IF _log_lock # "free"
       THEN /\ handler_pc' = [handler_pc EXCEPT ![c] = "wait_switch"]
            /\ UNCHANGED _log_lock
       ELSE /\ _log_lines # <<>>
            /\ handler_pc' = [handler_pc EXCEPT ![c] = "switch_sent"]
            /\ _log_lock' = c
    /\ UNCHANGED <<_log_lines, _status, _ws_loop, _clients, tasks, inbox,
                   link_up, events, dsVars, engineVars>>

\* the send of SwitchLog returns: the lock is released and the message loop
\* goes on
SwitchResume(c) ==
    /\ ~LoopBlocked
    /\ handler_pc[c] = "switch_sent"
    /\ handler_pc' = [handler_pc EXCEPT ![c] = "listen"]
    /\ _log_lock' = "free"
    /\ UNCHANGED <<_log_lines, _status, _ws_loop, _clients, tasks, inbox,
                   link_up, events, dsVars, engineVars>>

\* the subscriber goes away: its connection accepts nothing any more
Disconnect(c) ==
    /\ handler_pc[c] \notin {"none", "closed"}
    /\ link_up[c]
    /\ link_up' = [link_up EXCEPT ![c] = FALSE]
    /\ UNCHANGED <<_log_lock, _log_lines, _status, _ws_loop, _clients, tasks,
                   handler_pc, inbox, events, dsVars, engineVars>>

\* websocket_handler's message loop ends on the closed connection and its
\* finally clause removes the subscriber
HandlerClose(c) ==
    /\ ~LoopBlocked
    /\ handler_pc[c] = "listen"
    /\ ~link_up[c]
    /\ handler_pc' = [handler_pc EXCEPT ![c] = "closed"]
    /\ _clients' = _clients \ {c}
    /\ UNCHANGED <<_log_lock, _log_lines, _status, _ws_loop, tasks, inbox, link_up,
                   events, dsVars, engineVars>>

(***************************************************************************)
(* Specification                                                           *)
(***************************************************************************)
\* the receive thread and the clock
RecvStep ==
    \/ \E src \in Addresses, data \in Datagrams : RecvDatagram(src, data)
    \/ Tick
    \/ RecvTimeout
    \/ WatchdogFires

\* the send thread
SendStep ==
    \/ BuildBegin
    \/ \E ok \in BOOLEAN : BuildFinish(ok)

\* commands on the control intent
IntentStep ==
    \/ disable_robot
    \/ \E m \in ControlMode : set_mode(m)
    \/ emergency_stop
    \/ clear_emergency_stop

\* commands on the robot's address
AddressStep ==
    \/ \E t \in Teams : set_team_number(t)
    \/ set_robot_address(CustomAddress)

\* the statements of enable_robot
EnableStep ==
    \/ EnableCheckConnected
    \/ EnableCheckCode
    \/ EnableCheckEstop
    \/ EnableSet

\* the engine under its commands and the facade's enable requests, without
\* the send thread, which writes nothing the other threads read
Next ==
    \/ RecvStep
    \/ IntentStep
    \/ AddressStep
    \/ enable_robot
    \/ FacadeEnable
    \/ EnableStep

Spec == Init /\ [][Next]_vars

\* an engine found with any control intent the commands and the enable
\* race can leave, the FMS flag as a caller may have assigned it, the
\* counter at one of SendStarts and any station selected by the driver
InitWire ==
    /\ team_number = DEFAULT_TEAM_NUMBER
    /\ robot_address = TeamAddress(DEFAULT_TEAM_NUMBER)
    /\ status = RobotStatus
    /\ _mode \in ControlMode
    /\ _enabled \in BOOLEAN
    /\ _emergency_stopped \in BOOLEAN
    /\ _fms_attached \in BOOLEAN
    /\ _sent_packets \in SendStarts
    /\ silence = SilenceCap
    /\ recv_wait = 0
    /\ pc_send = "idle"
    /\ control_code = 0
    /\ build_latched = FALSE
    /\ wire = <<>>
    /\ pc_cmd = "idle"
    /\ current_status = NoStatus
    /\ since_valid = "never"
    /\ station \in StationCode
    /\ rx_data = <<>>
    /\ snap = NoSnapshot
    /\ snap_pc = 0
    /\ LifeInit
    /\ HostInit

\* the packet builder alone: no command between its statements
NextEncode ==
    \/ BuildBegin
    \/ \E ok \in BOOLEAN : BuildFinish(ok)

SpecEncode == InitWire /\ [][NextEncode]_vars

\* the send thread beside the intent commands
NextWire ==
    \/ SendStep
    \/ IntentStep

SpecWire == InitWire /\ [][NextWire]_vars

\* a request thread taking snapshots beside the receive thread
NextSnap ==
    \/ RecvStep
    \/ GetStatusBegin
    \/ GetStatusRead

SpecSnap == Init /\ [][NextSnap]_vars

\* an engine with one datagram of DecodeInputs waiting on its socket
InitDecode ==
    /\ team_number = DEFAULT_TEAM_NUMBER
    /\ robot_address = TeamAddress(DEFAULT_TEAM_NUMBER)
    /\ status = RobotStatus
    /\ _mode = TELEOP
    /\ _enabled = FALSE
    /\ _emergency_stopped = FALSE
    /\ _fms_attached = FALSE
    /\ _sent_packets = 0
    /\ silence = SilenceCap
    /\ recv_wait = 0
    /\ pc_send = "idle"
    /\ control_code = 0
    /\ build_latched = FALSE
    /\ wire = <<>>
    /\ pc_cmd = "idle"
    /\ current_status = NoStatus
    /\ since_valid = "never"
    /\ station = RED1
    /\ rx_data \in DecodeInputs
    /\ snap = NoSnapshot
    /\ snap_pc = 0
    /\ LifeInit
    /\ HostInit

\* the receive loop takes the waiting datagram, sent by the robot
NextDecode == RecvDatagram(robot_address, rx_data)

SpecDecode == InitDecode /\ [][NextDecode]_vars

\* an engine constructed for any team of TeamInputs
InitTeam ==
    /\ team_number \in TeamInputs
    /\ robot_address = TeamAddress(team_number)
    /\ status = RobotStatus
    /\ _mode = TELEOP
    /\ _enabled = FALSE
    /\ _emergency_stopped = FALSE
    /\ _fms_attached = FALSE
    /\ _sent_packets = 0
    /\ silence = SilenceCap
    /\ recv_wait = 0
    /\ pc_send = "idle"
    /\ control_code = 0
    /\ build_latched = FALSE
    /\ wire = <<>>
    /\ pc_cmd = "idle"
    /\ current_status = NoStatus
    /\ since_valid = "never"
    /\ station = RED1
    /\ rx_data = <<>>
    /\ snap = NoSnapshot
    /\ snap_pc = 0
    /\ LifeInit
    /\ HostInit

\* the address commands with every argument a caller can pass
NextTeam ==
    \/ \E t \in TeamInputs \cup BadTeams : set_team_number(t)
    \/ \E a \in {CustomAddress, MalformedAddress} : set_robot_address(a)

SpecTeam == InitTeam /\ [][NextTeam]_vars

\* the send loop alone, with its pacing
NextPace ==
    \/ \E ok \in BOOLEAN : PaceSend(ok)
    \/ PaceWait
    \/ \E late \in Lateness : PaceSleep(late)

SpecPace == Init /\ [][NextPace]_vars

\* the paced send loop beside the intent commands and the robot's frames
NextAbsorb ==
    \/ NextPace
    \/ IntentStep
    \/ \E data \in {DG_code, DG_estop} : RecvDatagram(robot_address, data)

SpecAbsorb == Init /\ [][NextAbsorb]_vars

\* the receive thread under datagrams of any source, with the clock running
\* and the thread scheduled whenever its recvfrom has timed out
NextStarve ==
    \/ RecvStep
    \/ IntentStep

SpecStarve ==
    /\ Init
    /\ [][NextStarve]_vars
    /\ WF_vars(Tick)
    /\ WF_vars(RecvTimeout)
    /\ WF_vars(WatchdogFires)

\* the statements of stop() and the exit of the send loop
StopStep ==
    \/ StopCall
    \/ JoinSend
    \/ JoinRecv
    \/ SendLoopExit

\* the threads earlier calls of start() left running
EarlierStep ==
    \/ EarlierBuild
    \/ \E ok \in BOOLEAN : EarlierSend(ok)
    \/ EarlierSendExit
    \/ EarlierRecvExit

\* an engine that is started and stopped at any moment, with its threads
\* and the commands that change what a frame carries
NextStart ==
    \/ \E bound \in BOOLEAN : start(bound)
    \/ StopStep
    \/ EarlierStep
    \/ SendStep
    \/ Tick
    \/ RecvTimeout
    \/ IntentStep

SpecStart == Init /\ [][NextStart]_vars

\* an engine that is stopped at any moment: both threads, the robot's
\* datagrams, the commands that change what a frame or the status carries
NextStop ==
    \/ \E data \in Datagrams : RecvDatagram(robot_address, data)
    \/ Tick
    \/ RecvTimeout
    \/ WatchdogFires
    \/ SendStep
    \/ StopStep
    \/ emergency_stop
    \/ disable_robot
    \/ enable_robot
    \/ EnableStep

SpecStop == Init /\ [][NextStop]_vars

\* the same engine with both threads scheduled and the clock running
SpecStopLive ==
    /\ SpecStop
    /\ WF_vars(Tick)
    /\ WF_vars(RecvTimeout)
    /\ WF_vars(WatchdogFires)
    /\ WF_vars(\E ok \in BOOLEAN : BuildFinish(ok))
    /\ WF_vars(SendLoopExit)

\* the send thread beside the receive thread and the intent commands, for
\* one robot address
NextSend ==
    \/ RecvStep
    \/ SendStep
    \/ IntentStep
    \/ enable_robot
    \/ EnableStep

SpecSend == Init /\ [][NextSend]_vars

\* servers that have been logging for a while, before anyone connects
InitLog ==
    /\ EngineInit
    /\ PaceInit
    /\ FanInit
    /\ _log_lines \in LogRings
    /\ ds_log_lines \in LogRings

\* updates of the Logs table reaching either server
NextLog ==
    \/ \E key \in LogKeys : \E value \in LogValues(key) :
           log_listener(key, value)
    \/ \E key \in LogKeys : \E value \in LogValues(key) :
           ds_log_listener(key, value)

SpecLog == InitLog /\ [][NextLog]_vars

\* updates of the Dashboard table reaching either server before and after
\* its websocket server is up, and the periodic broadcaster
NextMirror ==
    \/ start_websocket_server
    \/ ds_start_websocket_server
    \/ \E key \in NTKeys, value \in NTValues : status_listener(key, value)
    \/ \E key \in NTKeys, value \in NTValues : ds_status_listener(key, value)
    \/ dashboard_broadcast_loop

SpecMirror == Init /\ [][NextMirror]_vars

\* the modular server with subscribers coming and going while the tables
\* are updated
NextFan ==
    \/ start_websocket_server
    \/ Len(tasks) < MaxPending /\ status_listener("k1", 1)
    \/ Len(tasks) < MaxPending /\ log_listener("latest", <<97>>)
    \/ Len(tasks) < MaxPending /\ dashboard_broadcast_loop
    \/ Len(tasks) < MaxPending /\ monitor_loop
    \/ \E i \in 1..Len(tasks), order \in Orderings(_clients) :
           BroadcastRun(i, order)
    \/ \E c \in Subs : websocket_handler(c)
    \/ \E c \in Subs : Disconnect(c)
    \/ \E c \in Subs : HandlerClose(c)

SpecFan == Init /\ [][NextFan]_vars

\* broadcasts of the status map to subscribers that come and go
NextBroadcast ==
    \/ start_websocket_server
    \/ Len(tasks) < MaxPending /\ status_listener("k1", 1)
    \/ Len(tasks) < MaxPending /\ dashboard_broadcast_loop
    \/ \E i \in 1..Len(tasks), order \in Orderings(_clients) :
           BroadcastRun(i, order)
    \/ \E c \in Subs : websocket_handler(c)
    \/ \E c \in Subs : Disconnect(c)
    \/ \E c \in Subs : HandlerClose(c)

SpecBroadcast == Init /\ [][NextBroadcast]_vars

\* the status map under updates of the Dashboard table and requests of
\* /status.json, sent to subscribers in status_init and dashboard messages
NextStatus ==
    \/ start_websocket_server
    \/ \E key \in NTKeys, value \in NTValues : status_listener(key, value)
    \/ \E reading \in Readings : server_get_status(reading)
    \/ dashboard_broadcast_loop
    \/ \E c \in Subs : websocket_handler(c)
    \/ \E c \in Subs : Disconnect(c)

SpecStatus == Init /\ [][NextStatus]_vars

\* requests of the facade on the shared engine while the robot's frames
\* arrive
NextFacade ==
    \/ \E action \in FacadeActions, t \in Teams, a \in Addresses :
           FacadeRequest(action, t, a)
    \/ EnableStep
    \/ RecvStep

SpecFacade == Init /\ [][NextFacade]_vars

\* updates of the Logs table while the websocket server is up and
\* subscribers connect: the ring, the log_init a handler sends and the
\* log_init a history update broadcasts
NextLogInit ==
    \/ start_websocket_server
    \/ /\ Len(tasks) < MaxPending
       /\ \E key \in LogKeys : \E value \in LogValues(key) :
              log_listener(key, value)
    \/ \E i \in 1..Len(tasks), order \in Orderings(_clients) :
           BroadcastRun(i, order)
    \/ \E c \in Subs : websocket_handler(c)
    \/ \E c \in Subs : Disconnect(c)

SpecLogInit == Init /\ [][NextLogInit]_vars

\* subscribers whose handlers take the log lock beside the log listener
NextLock ==
    \/ start_websocket_server
    \/ \E key \in {"latest", "count"} : log_listener(key, <<97>>)
    \/ \E i \in 1..Len(tasks), order \in Orderings(_clients) :
           BroadcastRun(i, order)
    \/ \E c \in Subs : websocket_handler(c)
    \/ \E c \in Subs : SwitchLog(c)
    \/ \E c \in Subs : SwitchResume(c)
    \/ \E c \in Subs : Disconnect(c)
    \/ \E c \in Subs : HandlerClose(c)

SpecLock == Init /\ [][NextLock]_vars

(***************************************************************************)
(* Properties                                                              *)
(***************************************************************************)
\* 200 ms: the second receive timeout after a datagram
TwoReceiveTimeouts == 2 * RECV_TIMEOUT

\* enable_robot returns True in this step
EnableReturnsTrue == pc_cmd = "set_enabled" /\ pc_cmd' = "idle"

\* enable_robot returns False in this step
EnableReturnsFalse ==
    /\ pc_cmd \in {"check_connected", "check_code", "check_estop"}
    /\ pc_cmd' = "idle"

\* the reason that belongs to the check at which enable_robot returns False
ReasonOf(pc) ==
    IF pc = "check_connected" THEN "No communication with robot"
    ELSE IF pc = "check_code" THEN "Robot code not detected"
    ELSE "Robot is emergency stopped"

\* C1: the control intent is never enabled and locally emergency-stopped at
\* once, in any state between two commands.
C1_EnabledImpliesNotEstopped ==
    pc_cmd = "idle" => (_enabled => ~_emergency_stopped)

\* C2: enable() returns Ok only if, at the call, the engine is connected,
\* has robot code and is not emergency-stopped, an e-stop commanded by
\* emergency_stop() and not yet cleared included.  Commands run one at a
\* time, so the local e-stop at the return is the one at the call.
C2_EnableOkOnlyIfNotEstopped ==
    [][EnableReturnsTrue => ~_emergency_stopped]_vars

\* C3: whenever the engine is not connected, the enabled intent is false,
\* also when enable() runs concurrently with the watchdog transition.
C3_DisconnectedImpliesDisabled ==
    (pc_cmd = "idle" /\ ~status.connected) => ~_enabled

C5_SilenceDisconnects ==
    (since_valid = "quiet" /\ silence >= TwoReceiveTimeouts)
    => (~get_status.connected /\ ~get_status.enabled)

\* C5 witness: a frame was decoded, nothing came for 200 ms, and the
\* engine is disconnected.
C5_Witness ==
    /\ since_valid = "quiet"
    /\ silence >= TwoReceiveTimeouts
    /\ status.packet_count # 0
    /\ ~status.connected

\* C6: connected holds exactly when the last decoded frame from the robot
\* address arrived at most the watchdog timeout ago.  Stated where the
\* silence is the time since that frame: no datagram of the robot address
\* was discarded after it.
C6_ConnectedIffFresh ==
    since_valid \in {"quiet", "foreign"}
    => (status.connected <=> silence <= WATCHDOG_TIMEOUT)

\* C7: the watchdog transition Connected -> Disconnected clears connected,
\* enabled (status and intent), voltage, code_present and the echoed
\* e-stop, and leaves the local e-stop, the mode, the team number and the
\* robot address as they were.
C7_WatchdogEffect ==
    [][(status.connected /\ ~status'.connected)
       => /\ ~status'.enabled
          /\ ~_enabled'
          /\ status'.voltage = 0
          /\ ~status'.code_present
          /\ ~status'.emergency_stopped
          /\ _emergency_stopped' = _emergency_stopped
          /\ _mode' = _mode
          /\ team_number' = team_number
          /\ robot_address' = robot_address]_vars

\* C7 witness: the engine was connected, the watchdog has fired, and the
\* local e-stop, a mode other than the default and an overridden address
\* are still in place.
C7_Witness ==
    /\ ~status.connected
    /\ status.packet_count # 0
    /\ status.voltage = 0
    /\ _emergency_stopped
    /\ _mode = AUTONOMOUS
    /\ robot_address = CustomAddress

\* C8: every snapshot satisfies enabled => not emergency_stopped.
C8_SnapshotEnabledNotEstopped ==
    get_status.enabled => ~get_status.emergency_stopped

\* C9: clear_emergency_stop() never re-enables: when it returns, the
\* enabled intent is false.
C9_ClearLeavesDisabled ==
    [][(_emergency_stopped /\ ~_emergency_stopped') => ~_enabled']_vars

\* C10: the reason the facade reports for a rejected enable is the one of
\* the check that rejected it, also when the status changed between the
\* facade's status read and the call.
C10_ReasonMatchesCause ==
    [][(current_status.taken /\ EnableReturnsFalse)
       => ErrorMsg(current_status) = ReasonOf(pc_cmd)]_vars

\* the sequence number a frame carries in its first two bytes
SeqOf(frame) == frame[1] * 256 + frame[2]

\* a step of the send thread that hands a frame to the socket
Transmits == _sent_packets' # _sent_packets \/ wire' # wire

SnapshotReturned == snap_pc = Len(StatusKeys) + 1

\* C12: every returned snapshot agrees with itself: the aliases are
\* pairwise equal and can_be_enabled is the conjunction of its own fields
C12_SnapshotConsistent ==
    SnapshotReturned =>
        /\ snap.connected = snap.robot_communications
        /\ snap.enabled = snap.robot_enabled
        /\ snap.voltage = snap.robot_voltage
        /\ snap.can_be_enabled = (snap.connected /\ snap.code_present
                                  /\ ~snap.emergency_stopped)

\* C13: a datagram of fewer than 7 bytes from the robot's address leaves
\* the observed status and the time of the last response as they were
C13_ShortDatagramDiscarded ==
    [][\A data \in Datagrams :
          Len(data) < 7 /\ RecvDatagram(robot_address, data)
              => UNCHANGED <<status, silence>>]_vars

\* C14: a datagram of 7 bytes or more from the robot's address whose
\* version byte is not 0x01 leaves the observed status and the time of the
\* last response as they were
C14_UnknownVersionDiscarded ==
    [][\A data \in Datagrams :
          Len(data) >= 7 /\ data[3] # 1
          /\ RecvDatagram(robot_address, data)
              => UNCHANGED <<status, silence>>]_vars

\* C15: datagrams from other addresses do not keep a connection alive:
\* with nothing but such datagrams since the last decoded frame, the
\* engine is disconnected once the robot has been silent for 200 ms, as it
\* is when nothing arrives at all
C15_ForeignCannotKeepAlive ==
    since_valid \in {"quiet", "foreign"} /\ silence >= TwoReceiveTimeouts
        => ~status.connected

\* C16: once a datagram of 7 bytes or more with version 0x01 from the
\* robot's address is processed, the status holds the sequence of bytes
\* 0..1, the e-stop echo of byte 3 bit 0x80, the code flag of byte 4 bit
\* 0x20, the voltage of bytes 5 and 6, and connected, whatever follows
\* byte 6
C16_DecodeFields ==
    since_valid = "quiet" =>
        /\ status.connected
        /\ status.packet_count = 256 * rx_data[1] + rx_data[2]
        /\ status.emergency_stopped = (rx_data[4] >= 128)
        /\ status.code_present = ((rx_data[5] \div 32) % 2 = 1)
        /\ status.voltage = 256 * rx_data[6] + rx_data[7]

\* scenario S4 followed by four more bytes, decoded
C16_Witness ==
    /\ rx_data = DG_code \o <<0, 0, 255, 255>>
    /\ since_valid = "quiet"
    /\ status.packet_count = 5 /\ status.code_present
    /\ status.voltage = 12 * 256 + 128

\* the control byte of the intent as the frame layout gives it
ControlByteOf(mode, enabled, estopped, fms) ==
    mode + (IF enabled /\ ~estopped THEN 4 ELSE 0)
         + (IF fms THEN 8 ELSE 0) + (IF estopped THEN 128 ELSE 0)

\* C17: a transmitted frame is six bytes: the sequence big-endian, 0x01,
\* the control byte of the intent, the request code 0x00 and a station
\* byte
C17_FrameLayout ==
    [][Transmits =>
          /\ Len(wire') = 6
          /\ wire'[1] \in 0..255 /\ wire'[2] \in 0..255
          /\ SeqOf(wire') = _sent_packets % 65536
          /\ wire'[3] = 1
          /\ wire'[4] = ControlByteOf(_mode, _enabled, _emergency_stopped,
                                      _fms_attached)
          /\ wire'[5] = 0
          /\ wire'[6] \in StationCode]_vars

\* a frame of an enabled, e-stopped test-mode intent numbered 65535
C17_Witness ==
    /\ _mode = TEST /\ _enabled /\ _emergency_stopped /\ ~_fms_attached
    /\ Len(wire) = 6 /\ wire[1] = 255 /\ wire[2] = 255 /\ wire[4] = 129

C19_TeamAddressFormula ==
    /\ robot_address
         = <<10, team_number \div 100, team_number % 100, 2>>
    /\ [][\A t \in TeamInputs :
             set_team_number(t)
                 => /\ team_number' = t
                    /\ robot_address' = <<10, t \div 100, t % 100, 2>>]_vars

\* team 9999 set on an engine constructed for another team
C19_Witness ==
    team_number = 9999 /\ robot_address = <<10, 99, 99, 2>>

\* C20: set_team_number outside 1..9999 and set_robot_address with a
\* malformed address leave the team number and the address as they were
C20_InvalidArgumentsRejected ==
    [][/\ \A t \in BadTeams :
             set_team_number(t) => UNCHANGED <<team_number, robot_address>>
       /\ set_robot_address(MalformedAddress)
             => UNCHANGED <<team_number, robot_address>>]_vars

\* C21: the robot address changes only in a step of set_team_number or of
\* set_robot_address: an override survives every other operation
C21_AddressPersists ==
    [][robot_address' # robot_address
          => \/ \E t \in Teams : set_team_number(t)
             \/ \E a \in Addresses : set_robot_address(a)]_vars

\* an override that has outlived a decoded frame, a mode change and an
\* e-stop
C21_Witness ==
    /\ robot_address = CustomAddress
    /\ status.connected /\ _mode = TEST /\ _emergency_stopped

\* stop() has returned
Stopped == pc_stop = "returned"

\* C22: once stop() has returned the observed status holds the
\* disconnected defaults
C22_StopResetsStatus ==
    Stopped =>
        /\ ~status.connected /\ ~status.enabled
        /\ ~status.code_present /\ status.voltage = 0

\* C23: once stop() has been called both loops terminate; once it has
\* returned both have, no frame is transmitted and the observed status is
\* not written
C23_StopQuiesces ==
    /\ [](Stopped => ~send_alive /\ ~recv_alive)
    /\ [][Stopped => UNCHANGED <<status, wire, _sent_packets>>]_vars
    /\ (~_running ~> (~send_alive /\ ~recv_alive))

\* stop() returned on an engine that was connected and had sent frames,
\* with a command issued afterwards
C23_Witness ==
    /\ Stopped /\ status.connected /\ Len(wire) = 6 /\ _emergency_stopped

\* C24: after the Nth tick the send loop aims at start + N * 20 ms
C24_NoDrift == next_send_time = ticks * PACKET_INTERVAL

\* C25: a pass that transmits a frame schedules the next one for a time
\* still to come and goes to sleep, and no pass begins without time spent
\* asleep: two frames are never transmitted back to back
C25_NoBurst ==
    /\ [][ticks' # ticks
            => /\ pc_pace = "head" /\ pc_pace' = "sleep"
               /\ ticks' = ticks + 1
               /\ next_send_time' > now']_vars
    /\ [][pc_pace' = "head" /\ pc_pace # "head" => now' > now]_vars

\* the second frame went out more than one slot late, alone, and the third
\* is due 20 ms after it
C25_Witness ==
    /\ ticks = 2 /\ pc_pace = "sleep"
    /\ now >= 2 * PACKET_INTERVAL
    /\ next_send_time = now + PACKET_INTERVAL

\* C27: whatever updates of the Logs table arrive (latest, history, any other
\* key), the log ring of either server never holds more than 500 lines.
C27_RingBounded ==
    /\ Len(_log_lines) <= MAX_LOG_HISTORY
    /\ Len(ds_log_lines) <= DS_LOG_HISTORY

\* both rings are full and have dropped their oldest line for a new one
C27_Witness ==
    /\ Len(_log_lines) = MAX_LOG_HISTORY
    /\ _log_lines[1] = NumberedLine(2)
    /\ _log_lines[MAX_LOG_HISTORY] = <<97>>
    /\ Len(ds_log_lines) = DS_LOG_HISTORY
    /\ ds_log_lines[1] = NumberedLine(2)
    /\ ds_log_lines[DS_LOG_HISTORY] = <<97>>

\* the ring the reference gives after the update (key, value) of ring
LogReference(key, value, ring) ==
    IF key = "latest" THEN Trailing(Append(ring, value), MAX_LOG_HISTORY)
    ELSE IF key = "history" THEN Trailing(Split(value, <<10>>), MAX_LOG_HISTORY)
    ELSE ring

\* C28: an update of the Logs table changes the ring as the reference says:
\* latest appends the value as one line and keeps the trailing 500, history
\* replaces the ring by the trailing 500 of the value's lines, split at
\* newlines, and any other key leaves the ring as it is.
C28_LogTransition ==
    [][\A key \in LogKeys : \A value \in LogValues(key) :
          log_listener(key, value) =>
              _log_lines' = LogReference(key, value, _log_lines)]_vars

\* the initial messages a subscriber has received from its handler
InitOf(c) ==
    LET FromHandler(m) == m.from = "handler"
    IN  SelectSeq(inbox[c], FromHandler)

\* the initial messages are status_init, log_init, system_stats in this
\* order, each at most once
InitInOrder(c) ==
    LET rank == [t \in {"status_init", "log_init", "system_stats"} |->
                    IF t = "status_init" THEN 1
                    ELSE IF t = "log_init" THEN 2 ELSE 3]
    IN  \A i, j \in 1..Len(InitOf(c)) :
            i < j => rank[InitOf(c)[i].type] < rank[InitOf(c)[j].type]

\* C26: whatever the interleaving of a subscriber's connection handler with
\* the broadcasts of the listeners, the periodic broadcaster and the system
\* monitor, the subscriber receives status_init, log_init and system_stats
\* in this order, and no broadcast reaches it before the system_stats
\* message of its handler.
C26_InitBundleFirst ==
    \A c \in Subs :
        /\ InitInOrder(c)
        /\ \A i \in 1..Len(inbox[c]) :
               inbox[c][i].from = "broadcast" =>
                   \E j \in 1..(i - 1) :
                       inbox[c][j] = Received("system_stats", "handler")

\* C29: an update (k, v) of the Dashboard table sets status[k] to v, leaves
\* the other keys alone and schedules one broadcast that carries the whole
\* map as it is right after the update; in the modular server and in
\* ds_server.
C29_StatusUpdateBroadcast ==
    [][\A key \in NTKeys, value \in NTValues :
          /\ status_listener(key, value) =>
                /\ _status'[key] = value
                /\ \A k \in NTKeys \ {key} : _status'[k] = _status[k]
                /\ Len(tasks') = Len(tasks) + 1
                /\ tasks'[Len(tasks')].msg.map = _status'
          /\ ds_status_listener(key, value) =>
                /\ ds_status'[key] = value
                /\ \A k \in NTKeys \ {key} : ds_status'[k] = ds_status[k]
                /\ Len(ds_scheduled') = Len(ds_scheduled) + 1
                /\ ds_scheduled'[Len(ds_scheduled')].map = ds_status']_vars

\* the i-th broadcast completes in this step
Completes(i) ==
    /\ \E order \in Orderings(_clients) : BroadcastRun(i, order)
    /\ Len(tasks') < Len(tasks)

\* the literal reading of C30: when a broadcast completes, no subscriber
\* whose send failed is in the set and every subscriber whose send succeeded
\* is.
C30_SucceededStay ==
    [][\A i \in 1..Len(tasks) :
          Completes(i) =>
              /\ tasks[i].to_remove \cap _clients' = {}
              /\ tasks[i].sent \subseteq _clients']_vars

\* C30: when a broadcast completes, no subscriber whose send failed is in
\* the set, and every subscriber whose send succeeded and whose connection
\* is still open is in the set; the subscribers it sent to are those of its
\* snapshot, each with one outcome.
C30_BroadcastRemoval ==
    [][\A i \in 1..Len(tasks) :
          Completes(i) =>
              /\ tasks[i].to_remove \cap _clients' = {}
              /\ \A c \in tasks[i].sent : link_up[c] => c \in _clients'
              /\ tasks[i].sent \cap tasks[i].to_remove = {}]_vars

\* a broadcast has removed c1, whose handler still waits for messages, and
\* kept c2, which it reached
C30_Witness ==
    /\ tasks = <<>>
    /\ handler_pc["c1"] = "listen" /\ "c1" \notin _clients
    /\ handler_pc["c2"] = "listen" /\ "c2" \in _clients /\ link_up["c2"]

\* C31: no frame of the send loop carries both the enabled bit and the
\* e-stop bit, however emergency_stop, clear_emergency_stop, enable and
\* disable interleave with the construction of the frame.
C31_NoEnabledEstopFrame ==
    Len(wire) = 6 =>
        ~(HasBit(wire[4], CB_ENABLED) /\ HasBit(wire[4], CB_EMERGENCY_STOP))

\* a step in which _send_robot_packet returns, sent or failed
TickEnds == pc_send = "estop_bit" /\ pc_send' = "idle"

\* C32: every tick of the send loop advances the sequence counter by one,
\* whether its send succeeds or fails.
C32_CounterAdvancesEveryTick ==
    [][TickEnds => _sent_packets' = _sent_packets + 1]_vars

\* C33: a failed send is absorbed: the tick that fails changes neither the
\* control intent nor the observed status, the send loop stays alive and
\* schedules its next transmission one interval later.
C33_SendFailureAbsorbed ==
    /\ [][PaceSend(FALSE) =>
            /\ UNCHANGED <<intent, status, _running>>
            /\ send_alive'
            /\ next_send_time' = now + PACKET_INTERVAL]_vars
    /\ [](_running => send_alive)

\* two ticks in a row have failed and the loop waits for its third
C33_Witness ==
    /\ ticks = 2 /\ _sent_packets = 0 /\ wire = <<>>
    /\ send_alive /\ pc_pace = "sleep"
    /\ status.connected /\ _emergency_stopped

\* C34: once the robot's address has been silent for longer than the
\* watchdog timeout, the watchdog transition comes (connected becomes false)
\* unless the robot is heard again, also while datagrams of other sources
\* keep arriving at intervals shorter than the receive timeout.
C34_WatchdogFiresDespiteForeign ==
    (status.connected /\ WatchdogExpired(silence))
        ~> (~status.connected \/ ~WatchdogExpired(silence))

\* C35: the snapshot taken right after a command returns shows the command:
\* enabled is true after enable() returned Ok and false after disable() or
\* emergency_stop() returned, before any further frame of the robot.
C35_SnapshotReflectsCommand ==
    [][/\ EnableReturnsTrue => get_status'.enabled
       /\ (disable_robot \/ emergency_stop) => ~get_status'.enabled]_vars

\* C36: the fan-out never deadlocks on the log lock: no handler blocks the
\* thread of the event loop in the acquire of the lock while the lock is
\* held by a handler that is suspended in a send on that same thread, for
\* any interleaving of connections, switch_log requests and log updates.
C36_NoLogLockDeadlock ==
    ~\E c \in Subs :
        /\ handler_pc[c] \in {"wait_lock", "wait_switch"}
        /\ _log_lock \in Subs

\* C37: the status map changes only in an update of the status listener;
\* reading the status for /status.json leaves it as it is.
C37_ReadLeavesStatus ==
    [][_status' # _status =>
          \E key \in NTKeys, value \in NTValues :
              status_listener(key, value)]_vars

\* a broadcast of log_init reaches a subscriber with lines that are not the
\* ring, or with more lines than the ring may hold
LogInitOffRing ==
    \E i \in 1..Len(tasks) :
        /\ tasks[i].msg.type = "log_init"
        /\ Len(tasks') = Len(tasks)
        /\ tasks'[i].sent # tasks[i].sent
        /\ \/ tasks[i].msg.lines # _log_lines
           \/ Len(tasks[i].msg.lines) > MAX_LOG_HISTORY

\* C38: every log_init sent to a subscriber, the one a history update
\* broadcasts included, carries the ring as it is when sent, so at most
\* MAX_LOG_HISTORY lines.
C38_LogInitCarriesRing == [][~LogInitOffRing]_vars

\* a request of the facade with an action other than set_team and
\* set_address
OtherRequest ==
    \E action \in FacadeActions \ {"set_team", "set_address"} :
        \E t \in Teams, a \in Addresses : FacadeRequest(action, t, a)

\* C39: a request of the facade with an action other than set_team and
\* set_address leaves the team number and the robot's address as an
\* earlier set_team or set_address request left them.
C39_FacadeKeepsTeam ==
    [][OtherRequest => UNCHANGED <<team_number, robot_address>>]_vars

\* the sequence number a frame carries
SequenceOf(frame) == frame[1] * 256 + frame[2]

\* C40: under any calls of start() and stop() no send loop and no receive
\* loop runs beside the one the engine holds, and each frame on the wire
\* carries the sequence number after the one of the frame before it.
C40_OneLoopEach ==
    /\ [](earlier_send = 0 /\ earlier_recv = 0)
    /\ [][wire # <<>> /\ wire' # wire =>
             SequenceOf(wire') = (SequenceOf(wire) + 1) % 65536]_vars

====
